---- MODULE Spec2Model ----
(***************************************************************************)
(* Model of the chirpy_server HTTP backend (src/main.go): the request      *)
(* handlers, the profanity moderator, the hit counter and the server       *)
(* lifecycle.                                                              *)
(*                                                                         *)
(* A Go string is modelled as a sequence of Unicode code points; len(s),   *)
(* which counts bytes, is ByteLen(s) (the UTF-8 encoded size) and the      *)
(* number of characters is Len(s).                                         *)
(***************************************************************************)
EXTENDS Integers, Sequences, FiniteSets

VARIABLES platform, fileserverHits, users, chirps, lifecycle, listener, exitCode,
          quit, elapsed, inflight, lastResp, passed, origin,
          cleanPc, cleanIn, cleanOut

vars == <<platform, fileserverHits, users, chirps, lifecycle, listener, exitCode,
          quit, elapsed, inflight, lastResp, passed, origin,
          cleanPc, cleanIn, cleanOut>>

(***************************************************************************)
(* Bounds of the model.                                                    *)
(***************************************************************************)
\* number of requests that can be in flight at once
MaxReqs == 2
\* number of instrumented requests counted
MaxHits == 2
\* number of distinct identifiers uuid.New() hands to createUserHandler
MaxUsers == 1
\* number of distinct identifiers uuid.New() hands to createChirpHandler
MaxChirps == 1
\* number of space-separated tokens of a moderator input
MaxWords == 2

(***************************************************************************)
(* Program constants.                                                      *)
(***************************************************************************)
\* if len(req.Body) > 140
MaxChirpLen == 140
\* context.WithTimeout(context.Background(), 5*time.Second)
DrainBudget == 5

(***************************************************************************)
(* Strings.                                                                *)
(***************************************************************************)
Space == 32

Rep(c, n) == [i \in 1..n |-> c]

\* encoded size of one code point in UTF-8
Utf8Len(c) == IF c < 128 THEN 1 ELSE IF c < 2048 THEN 2 ELSE IF c < 65536 THEN 3 ELSE 4

\* the positions of s whose code point takes n bytes in UTF-8
Utf8Pos(s, n) == {i \in 1..Len(s) : Utf8Len(s[i]) = n}

\* Go's len(s): the number of bytes of the UTF-8 encoding
ByteLen(s) ==
    Cardinality(Utf8Pos(s, 1)) + 2 * Cardinality(Utf8Pos(s, 2))
        + 3 * Cardinality(Utf8Pos(s, 3)) + 4 * Cardinality(Utf8Pos(s, 4))

\* unicode.ToLower on the code points the model uses: ASCII and Latin-1
\* capitals move by 32, the Kelvin sign U+212A maps to 'k'
LowerRune(c) ==
    IF c >= 65 /\ c <= 90 THEN c + 32
    ELSE IF c >= 192 /\ c <= 222 /\ c # 215 THEN c + 32
    ELSE IF c = 8490 THEN 107
    ELSE c

\* strings.ToLower
ToLower(s) == [i \in 1..Len(s) |-> LowerRune(s[i])]

RECURSIVE Split(_)
\* strings.Split(s, " "): one token per space-delimited field, empty fields kept
Split(s) ==
    IF \A i \in 1..Len(s) : s[i] # Space THEN <<s>>
    ELSE LET i == CHOOSE j \in 1..Len(s) :
                     s[j] = Space /\ \A k \in 1..(j - 1) : s[k] # Space
         IN <<SubSeq(s, 1, i - 1)>> \o Split(SubSeq(s, i + 1, Len(s)))

RECURSIVE Join(_)
\* strings.Join(words, " ")
Join(words) ==
    IF words = <<>> THEN <<>>
    ELSE IF Len(words) = 1 THEN words[1]
    ELSE words[1] \o <<Space>> \o Join(Tail(words))

kerfuffle == <<107, 101, 114, 102, 117, 102, 102, 108, 101>>
sharbert == <<115, 104, 97, 114, 98, 101, 114, 116>>
fornax == <<102, 111, 114, 110, 97, 120>>

profaneWords == {kerfuffle, sharbert, fornax}

Mask == <<42, 42, 42, 42>>

\* cleanProfanity that compares tokens without lower-casing them
cleanProfanityCaseSensitive(input) ==
    LET words == Split(input)
    IN Join([i \in 1..Len(words) |->
                IF words[i] \in profaneWords THEN Mask ELSE words[i]])

cleanProfanity(input) ==
    LET words == Split(input)
    IN Join([i \in 1..Len(words) |->
                IF ToLower(words[i]) \in profaneWords THEN Mask ELSE words[i]])

(***************************************************************************)
(* Inputs of the moderator: up to MaxWords tokens of the vocabulary,       *)
(* joined by single spaces.  The empty token gives leading, trailing and   *)
(* doubled spaces.                                                         *)
(***************************************************************************)
Vocabulary ==
    { <<>>,
      kerfuffle,
      <<75>> \o Tail(kerfuffle),
      kerfuffle \o <<100>>,
      <<83, 72, 65, 82, 66, 69, 82, 84>>,
      fornax \o <<33>>,
      <<104, 105>>,
      <<8490>> \o Tail(kerfuffle) }

WordLists == UNION { [1..n -> Vocabulary] : n \in 1..MaxWords }

CleanInputs == { Join(ws) : ws \in WordLists }

(***************************************************************************)
(* Identifiers.  A uuid.UUID is its 16 bytes; its text form is the         *)
(* canonical 36-character hexadecimal string.                              *)
(***************************************************************************)
\* the n-th identifier uuid.New() can return: a version-4, variant-1 UUID
NewUUID(n) == [i \in 1..16 |-> IF i = 16 THEN n ELSE IF i = 7 THEN 64 ELSE IF i = 9 THEN 128 ELSE 0]

HexChar(d) == IF d < 10 THEN 48 + d ELSE 87 + d

\* the 32 hexadecimal digits of a UUID
Nibble(u, k) == IF k % 2 = 1 THEN u[(k + 1) \div 2] \div 16 ELSE u[k \div 2] % 16

DashPos == {9, 14, 19, 24}

\* position in the 36-character form of the k-th hexadecimal digit
HexPos(k) == k + (IF k > 20 THEN 4 ELSE IF k > 16 THEN 3 ELSE IF k > 12 THEN 2 ELSE IF k > 8 THEN 1 ELSE 0)

\* the hexadecimal digit a position of the 36-character form holds
HexIndex(p) == p - (IF p > 24 THEN 4 ELSE IF p > 19 THEN 3 ELSE IF p > 14 THEN 2 ELSE IF p > 9 THEN 1 ELSE 0)

\* UUID.String(): xxxxxxxx-xxxx-xxxx-xxxx-xxxxxxxxxxxx
UUIDString(u) ==
    [p \in 1..36 |->
        IF p \in DashPos THEN 45
        ELSE HexChar(Nibble(u, HexIndex(p)))]

\* value of one hexadecimal digit, -1 for any other byte
HexVal(c) ==
    IF c >= 48 /\ c <= 57 THEN c - 48
    ELSE IF c >= 97 /\ c <= 102 THEN c - 87
    ELSE IF c >= 65 /\ c <= 70 THEN c - 55
    ELSE -1

NilUUID == [i \in 1..16 |-> 0]

\* the 36-character form: dashes in place, hexadecimal digits elsewhere
ParseCanonical(t) ==
    IF \E p \in DashPos : t[p] # 45 THEN [ok |-> FALSE, id |-> NilUUID]
    ELSE IF \E p \in (1..36) \ DashPos : HexVal(t[p]) < 0 THEN [ok |-> FALSE, id |-> NilUUID]
    ELSE LET hex == [k \in 1..32 |-> HexVal(t[HexPos(k)])]
         IN [ok |-> TRUE, id |-> [i \in 1..16 |-> 16 * hex[2 * i - 1] + hex[2 * i]]]

\* "urn:uuid:", compared case-insensitively
UrnPrefix == <<117, 114, 110, 58, 117, 117, 105, 100, 58>>

\* uuid.Parse: the text is accepted in the 36-character form, with a
\* "urn:uuid:" prefix, between braces, or as 32 bare hexadecimal digits
ParseUUID(s) ==
    IF \E i \in 1..Len(s) : s[i] >= 128 THEN [ok |-> FALSE, id |-> NilUUID]
    ELSE IF Len(s) = 36 THEN ParseCanonical(s)
    ELSE IF Len(s) = 45 THEN
        IF ToLower(SubSeq(s, 1, 9)) # UrnPrefix THEN [ok |-> FALSE, id |-> NilUUID]
        ELSE ParseCanonical(SubSeq(s, 10, 45))
    ELSE IF Len(s) = 38 THEN ParseCanonical(SubSeq(s, 2, 37))
    ELSE IF Len(s) = 32 THEN
        IF \E k \in 1..32 : HexVal(s[k]) < 0 THEN [ok |-> FALSE, id |-> NilUUID]
        ELSE [ok |-> TRUE, id |-> [i \in 1..16 |-> 16 * HexVal(s[2 * i - 1]) + HexVal(s[2 * i])]]
    ELSE [ok |-> FALSE, id |-> NilUUID]

\* identifiers uuid.New() returns in createUserHandler and createChirpHandler
UserIDPool == { NewUUID(i) : i \in 1..MaxUsers }

ChirpIDPool == { NewUUID(i) : i \in 1..MaxChirps }

\* uuid.New() returns a random identifier, one that no stored row has: of
\* the identifiers of the pool not in use, which are interchangeable, the first
FreshUUID(pool, used) ==
    CHOOSE id \in pool \ used : \A other \in pool \ used : id[16] <= other[16]

(***************************************************************************)
(* Request inputs.                                                         *)
(***************************************************************************)
\* "not-a-uuid"
NotUUID == <<110, 111, 116, 45, 97, 45, 117, 117, 105, 100>>

\* 36 characters with a letter that is no hexadecimal digit
BadHexUUID == [p \in 1..36 |-> IF p \in DashPos THEN 45 ELSE IF p = 1 THEN 103 ELSE 48]

\* the identifier 1 written between braces
BracedUUID == <<123>> \o UUIDString(NewUUID(1)) \o <<125>>

\* {chirpID} path values: the identifiers chirps can get, another spelling
\* of the first, and two malformed texts
PathIDs ==
    { UUIDString(NewUUID(i)) : i \in 1..MaxChirps } \cup {BracedUUID, NotUUID, BadHexUUID}

\* "Kerfuffle hi"
ShortProfane == <<75>> \o Tail(kerfuffle) \o <<Space, 104, 105>>

\* chirp bodies: a short one with a denylisted word, 140 and 141 ASCII
\* letters, and 71 two-byte letters (142 bytes)
ReqBodies == {ShortProfane, Rep(97, 140), Rep(97, 141), Rep(233, 71)}

\* "a@b.c"
Emails == {<<97, 64, 98, 46, 99>>}

Platforms == {"dev", "production"}

\* the texts requests carry as identifiers
UUIDTexts == PathIDs \cup {UUIDString(NewUUID(1)), NotUUID}

\* uuid.Parse on the identifier texts, evaluated once
Parsed == [t \in UUIDTexts |-> ParseUUID(t)]

\* a chirp-creation request: a body that is no JSON, or a decoded envelope
ChirpRequests ==
    {[json |-> "bad", body |-> <<>>, id |-> <<>>, email |-> <<>>],
     [json |-> "ok", body |-> ShortProfane, id |-> NotUUID, email |-> <<>>]}
        \cup {[json |-> "ok", body |-> b, id |-> UUIDString(NewUUID(1)), email |-> <<>>] :
                 b \in ReqBodies}

\* a user-creation request
UserRequests ==
    {[json |-> "bad", body |-> <<>>, id |-> <<>>, email |-> <<>>]}
        \cup {[json |-> "ok", body |-> <<>>, id |-> <<>>, email |-> e] : e \in Emails}

(***************************************************************************)
(* The server.                                                             *)
(***************************************************************************)
NoReq == [json |-> "none", body |-> <<>>, id |-> <<>>, email |-> <<>>]

\* the last response written, with the request it answers, the store
\* operations the handler invoked and the error the store returned
Resp(route, req, status, msg, calls, err, rows, hits) ==
    [route |-> route, req |-> req, status |-> status, msg |-> msg,
     calls |-> calls, err |-> err, rows |-> rows, hits |-> hits]

NoResp == Resp("none", NoReq, 0, "", <<>>, "none", {}, 0)

\* total number of requests in flight
InFlight == inflight.app + inflight.reset

\* the process runs and handler goroutines can take steps
Running == lifecycle \in {"serving", "draining"}

\* the largest value of an int32
MaxInt32 == 2147483647

\* an increment that is lost
Add32Lost(x) == x

\* atomic.Int32.Add(1): 32-bit two's complement, wrapping to the least value
Add32(x) == IF x = MaxInt32 THEN (0 - MaxInt32) - 1 ELSE x + 1

Init ==
    /\ platform \in Platforms
    /\ fileserverHits = 0
    /\ users = {}
    /\ chirps = {}
    /\ lifecycle = "starting"
    /\ listener = "none"
    /\ exitCode = -1
    /\ quit = FALSE
    /\ elapsed = 0
    /\ inflight = [app |-> 0, reset |-> 0]
    /\ lastResp = NoResp
    /\ passed = 0
    /\ origin = {}
    /\ cleanPc = "idle"
    /\ cleanIn = <<>>
    /\ cleanOut = <<>>

(***************************************************************************)
(* The Resource Store (internal/database): each operation either fails     *)
(* and changes nothing, or succeeds.                                       *)
(***************************************************************************)
DBCreateUser(row, fail) ==
    IF fail \/ \E u \in users : u.id = row.id
    THEN [err |-> "other", users |-> users]
    ELSE [err |-> "nil", users |-> users \cup {row}]

\* rows: the users the statement deleted
DBDeleteAllUsers(fail) ==
    IF fail THEN [err |-> "other", users |-> users, rows |-> {}]
    ELSE [err |-> "nil", users |-> {}, rows |-> users]

DBCreateChirp(row, fail) ==
    IF fail \/ \E c \in chirps : c.id = row.id
    THEN [err |-> "other", chirps |-> chirps]
    ELSE [err |-> "nil", chirps |-> chirps \cup {row}]

DBGetChirps(fail) ==
    IF fail THEN [err |-> "other", rows |-> {}]
    ELSE [err |-> "nil", rows |-> chirps]

\* sql.ErrNoRows when no chirp has the identifier
DBGetChirpByID(id, fail) ==
    IF fail THEN [err |-> "other", rows |-> {}]
    ELSE IF \E c \in chirps : c.id = id
    THEN [err |-> "nil", rows |-> {c \in chirps : c.id = id}]
    ELSE [err |-> "ErrNoRows", rows |-> {}]

(***************************************************************************)
(* Requests.  While the server is serving, a request is accepted and the   *)
(* handler the mux selects runs in its own goroutine.  A handler is one    *)
(* step, taken at the one shared operation it performs.  The instrumented  *)
(* route and the development-mode reset perform two shared operations:     *)
(* between the two steps the request is in flight, and its second step     *)
(* can also happen while the server drains.                                *)
(***************************************************************************)
\* a request is accepted and its handler starts
Handles == lifecycle = "serving" /\ listener = "open"

\* a handler that stays in flight after its first step
Starts == Handles /\ InFlight < MaxReqs

Frame == UNCHANGED <<platform, lifecycle, listener, exitCode, quit, elapsed,
                     cleanPc, cleanIn, cleanOut>>

\* GET /api/healthz
healthzHandler ==
    /\ Handles
    /\ UNCHANGED inflight
    /\ lastResp' = Resp("healthz", NoReq, 200, "OK", <<>>, "none", {}, 0)
    /\ Frame
    /\ UNCHANGED <<fileserverHits, users, chirps, passed, origin>>

\* cfg.fileserverHits.Add(1), then next.ServeHTTP
middlewareMetricsInc ==
    /\ Starts
    /\ passed < MaxHits
    /\ fileserverHits' = Add32(fileserverHits)
    /\ passed' = passed + 1
    /\ inflight' = [inflight EXCEPT !.app = @ + 1]
    /\ Frame
    /\ UNCHANGED <<users, chirps, lastResp, origin>>

\* the file server behind the middleware answers
appFileServer ==
    /\ Running
    /\ inflight.app > 0
    /\ inflight' = [inflight EXCEPT !.app = @ - 1]
    /\ lastResp' = Resp("app", NoReq, 200, "", <<>>, "none", {}, 0)
    /\ Frame
    /\ UNCHANGED <<fileserverHits, users, chirps, passed, origin>>

\* /assets/ is served without the middleware
assetsFileServer ==
    /\ Handles
    /\ UNCHANGED inflight
    /\ lastResp' = Resp("assets", NoReq, 200, "", <<>>, "none", {}, 0)
    /\ Frame
    /\ UNCHANGED <<fileserverHits, users, chirps, passed, origin>>

\* GET /admin/metrics
adminMetricsHandler ==
    /\ Handles
    /\ UNCHANGED inflight
    /\ lastResp' = Resp("metrics", NoReq, 200, "", <<>>, "none", {}, fileserverHits)
    /\ Frame
    /\ UNCHANGED <<fileserverHits, users, chirps, passed, origin>>

\* the platform check without its condition
ResetForbiddenNever(p) == FALSE

\* if cfg.platform != "dev"
ResetForbidden(p) == p # "dev"

\* POST /admin/reset up to cfg.fileserverHits.Store(0)
adminResetHandler ==
    /\ Handles
    /\ IF ResetForbidden(platform)
       THEN /\ UNCHANGED inflight
            /\ lastResp' = Resp("reset", NoReq, 403,
                                "This endpoint is only available in development",
                                <<>>, "none", {}, 0)
            /\ UNCHANGED <<fileserverHits, passed>>
       ELSE /\ InFlight < MaxReqs
            /\ fileserverHits' = 0
            /\ passed' = 0
            /\ inflight' = [inflight EXCEPT !.reset = @ + 1]
            /\ UNCHANGED lastResp
    /\ Frame
    /\ UNCHANGED <<users, chirps, origin>>

\* the rest of adminResetHandler that deletes the chirps of the deleted users too
adminResetDeleteUsersCascade(fail) ==
    /\ Running
    /\ inflight.reset > 0
    /\ inflight' = [inflight EXCEPT !.reset = @ - 1]
    /\ LET r == DBDeleteAllUsers(fail)
       IN /\ users' = r.users
          /\ chirps' = {c \in chirps : \A u \in r.rows : c.userID # u.id}
          /\ lastResp' = IF r.err # "nil"
                         THEN Resp("reset", NoReq, 500, "Error deleting users",
                                   <<"DeleteAllUsers">>, r.err, {}, 0)
                         ELSE Resp("reset", NoReq, 200, "",
                                   <<"DeleteAllUsers">>, r.err, r.rows, 0)
    /\ Frame
    /\ UNCHANGED <<fileserverHits, passed, origin>>

\* the rest of adminResetHandler with the counter zeroed after DeleteAllUsers
adminResetDeleteUsersThenStore(fail) ==
    /\ Running
    /\ inflight.reset > 0
    /\ inflight' = [inflight EXCEPT !.reset = @ - 1]
    /\ fileserverHits' = 0
    /\ passed' = 0
    /\ LET r == DBDeleteAllUsers(fail)
       IN /\ users' = r.users
          /\ lastResp' = IF r.err # "nil"
                         THEN Resp("reset", NoReq, 500, "Error deleting users",
                                   <<"DeleteAllUsers">>, r.err, {}, 0)
                         ELSE Resp("reset", NoReq, 200, "",
                                   <<"DeleteAllUsers">>, r.err, r.rows, 0)
    /\ Frame
    /\ UNCHANGED <<chirps, origin>>

\* the rest of adminResetHandler that answers 200 without deleting the users
adminResetDeleteUsersSkipped(fail) ==
    /\ Running
    /\ inflight.reset > 0
    /\ inflight' = [inflight EXCEPT !.reset = @ - 1]
    /\ lastResp' = Resp("reset", NoReq, 200, "", <<>>, "none", {}, 0)
    /\ Frame
    /\ UNCHANGED <<fileserverHits, users, chirps, passed, origin>>

\* the rest of adminResetHandler: cfg.db.DeleteAllUsers and the response
adminResetDeleteUsers(fail) ==
    /\ Running
    /\ inflight.reset > 0
    /\ inflight' = [inflight EXCEPT !.reset = @ - 1]
    /\ LET r == DBDeleteAllUsers(fail)
       IN /\ users' = r.users
          /\ lastResp' = IF r.err # "nil"
                         THEN Resp("reset", NoReq, 500, "Error deleting users",
                                   <<"DeleteAllUsers">>, r.err, {}, 0)
                         ELSE Resp("reset", NoReq, 200, "",
                                   <<"DeleteAllUsers">>, r.err, r.rows, 0)
    /\ Frame
    /\ UNCHANGED <<fileserverHits, chirps, passed, origin>>

\* POST /api/users
createUserHandler(req) ==
    /\ Handles
    /\ UNCHANGED inflight
    /\ IF req.json # "ok"
       THEN /\ lastResp' = Resp("createUser", req, 400, "Invalid request payload",
                                <<>>, "none", {}, 0)
            /\ UNCHANGED users
       ELSE \E fail \in BOOLEAN :
               LET used == {u.id : u \in users}
                   id == FreshUUID(UserIDPool, used)
                   row == [id |-> id, email |-> req.email]
                   r == DBCreateUser(row, fail)
               IN /\ (fail \/ UserIDPool \ used # {})
                  /\ users' = r.users
                  /\ lastResp' = IF r.err # "nil"
                                 THEN Resp("createUser", req, 500, "Error creating user",
                                           <<"CreateUser">>, r.err, {}, 0)
                                 ELSE Resp("createUser", req, 201, "",
                                           <<"CreateUser">>, r.err, {row}, 0)
    /\ Frame
    /\ UNCHANGED <<fileserverHits, chirps, passed, origin>>

\* the length check off by one
TooLongOffByOne(body) == ByteLen(body) > MaxChirpLen + 1

\* if len(req.Body) > 140
TooLong(body) == ByteLen(body) > MaxChirpLen

\* the length check and the moderator on the request bodies, evaluated once
BodyTooLong == [b \in ReqBodies |-> TooLong(b)]

Cleaned == [b \in ReqBodies |-> cleanProfanity(b)]

\* POST /api/chirps
createChirpHandler(req) ==
    /\ Handles
    /\ UNCHANGED inflight
    /\ IF req.json # "ok" \/ ~Parsed[req.id].ok
       THEN /\ lastResp' = Resp("createChirp", req, 400, "Invalid request payload",
                                <<>>, "none", {}, 0)
            /\ UNCHANGED <<chirps, origin>>
       ELSE IF BodyTooLong[req.body]
       THEN /\ lastResp' = Resp("createChirp", req, 400, "Chirp is too long",
                                <<>>, "none", {}, 0)
            /\ UNCHANGED <<chirps, origin>>
       ELSE \E fail \in BOOLEAN :
               LET cleanedBody == Cleaned[req.body]
                   used == {c.id : c \in chirps}
                   id == FreshUUID(ChirpIDPool, used)
                   row == [id |-> id, body |-> cleanedBody, userID |-> Parsed[req.id].id]
                   r == DBCreateChirp(row, fail)
               IN /\ (fail \/ ChirpIDPool \ used # {})
                  /\ chirps' = r.chirps
                  /\ IF r.err # "nil"
                     THEN /\ lastResp' = Resp("createChirp", req, 500, "Error creating chirp",
                                              <<"cleanProfanity", "CreateChirp">>, r.err, {}, 0)
                          /\ UNCHANGED origin
                     ELSE /\ lastResp' = Resp("createChirp", req, 201, "",
                                              <<"cleanProfanity", "CreateChirp">>, r.err,
                                              {row}, 0)
                          /\ origin' = origin \cup {[id |-> id, req |-> req]}
    /\ Frame
    /\ UNCHANGED <<fileserverHits, users, passed>>

\* GET /api/chirps
getChirpsHandler(fail) ==
    /\ Handles
    /\ UNCHANGED inflight
    /\ LET r == DBGetChirps(fail)
       IN lastResp' = IF r.err # "nil"
                      THEN Resp("getChirps", NoReq, 500, "Error getting chirps",
                                <<"GetChirps">>, r.err, {}, 0)
                      ELSE Resp("getChirps", NoReq, 200, "", <<"GetChirps">>, r.err, r.rows, 0)
    /\ Frame
    /\ UNCHANGED <<fileserverHits, users, chirps, passed, origin>>

\* every store error reported alike
LookupErrorStatusGeneric(err) == 500

\* if err == sql.ErrNoRows: 404, otherwise 500
LookupErrorStatus(err) == IF err = "ErrNoRows" THEN 404 ELSE 500

LookupErrorMessage(err) == IF err = "ErrNoRows" THEN "Chirp not found" ELSE "Error getting chirp"

\* GET /api/chirps/{chirpID}
getChirpByIDHandler(chirpIDStr) ==
    /\ Handles
    /\ UNCHANGED inflight
    /\ LET req == [json |-> "none", body |-> <<>>, id |-> chirpIDStr, email |-> <<>>]
           chirpID == Parsed[chirpIDStr]
       IN IF ~chirpID.ok
          THEN lastResp' = Resp("getChirpByID", req, 400, "Invalid chirp ID format",
                                <<>>, "none", {}, 0)
          ELSE \E fail \in BOOLEAN :
                  LET r == DBGetChirpByID(chirpID.id, fail)
                  IN lastResp' = IF r.err # "nil"
                                 THEN Resp("getChirpByID", req, LookupErrorStatus(r.err),
                                           LookupErrorMessage(r.err),
                                           <<"GetChirpByID">>, r.err, {}, 0)
                                 ELSE Resp("getChirpByID", req, 200, "",
                                           <<"GetChirpByID">>, r.err, r.rows, 0)
    /\ Frame
    /\ UNCHANGED <<fileserverHits, users, chirps, passed, origin>>

(***************************************************************************)
(* Lifecycle.  main starts ListenAndServe in a goroutine, registers for    *)
(* the interrupt signal, blocks on the quit channel and then calls         *)
(* server.Shutdown with a context that expires after DrainBudget seconds.  *)
(* The initial state is main blocked on <-quit with the goroutine not yet  *)
(* past net.Listen.  When the process exits its goroutines end with it:    *)
(* the requests in flight are abandoned.                                   *)
(***************************************************************************)
Quiet == UNCHANGED <<platform, fileserverHits, users, chirps, lastResp,
                     passed, origin, cleanPc, cleanIn, cleanOut>>

\* the goroutine's ListenAndServe binds the listener
ListenBound ==
    /\ lifecycle = "starting"
    /\ lifecycle' = "serving"
    /\ listener' = "open"
    /\ UNCHANGED <<exitCode, quit, elapsed, inflight>>
    /\ Quiet

\* ListenAndServe returns an error other than ErrServerClosed: log.Fatalf
ListenFatal ==
    /\ lifecycle = "starting"
    /\ lifecycle' = "stopped"
    /\ exitCode' = 1
    /\ UNCHANGED <<listener, quit, elapsed, inflight>>
    /\ Quiet

\* the requests in flight end with the process
Abandoned == [app |-> 0, reset |-> 0]

\* an interrupt signal arrives and is put on the quit channel (capacity 1,
\* dropped when full); once Shutdown has begun nothing reads the channel
Interrupt ==
    /\ lifecycle \in {"starting", "serving"}
    /\ quit' = TRUE
    /\ UNCHANGED <<lifecycle, listener, exitCode, elapsed, inflight>>
    /\ Quiet

\* server.Shutdown called without a signal on the quit channel
ShutdownUnprompted ==
    /\ lifecycle \in {"starting", "serving"}
    /\ quit' = FALSE
    /\ lifecycle' = "draining"
    /\ listener' = IF listener = "open" THEN "closed" ELSE listener
    /\ elapsed' = 0
    /\ UNCHANGED <<exitCode, inflight>>
    /\ Quiet

\* <-quit returns and main calls server.Shutdown(ctx), which closes the listener
Shutdown ==
    /\ lifecycle \in {"starting", "serving"}
    /\ quit
    /\ quit' = FALSE
    /\ lifecycle' = "draining"
    /\ listener' = IF listener = "open" THEN "closed" ELSE listener
    /\ elapsed' = 0
    /\ UNCHANGED <<exitCode, inflight>>
    /\ Quiet

\* the drain budget passes: the context's deadline is reached
Tick ==
    /\ lifecycle = "draining"
    /\ elapsed < DrainBudget
    /\ elapsed' = DrainBudget
    /\ UNCHANGED <<lifecycle, listener, exitCode, quit, inflight>>
    /\ Quiet

\* Shutdown finds no request in flight and returns nil; main returns
ShutdownIdle ==
    /\ lifecycle = "draining"
    /\ InFlight = 0
    /\ lifecycle' = "stopped"
    /\ exitCode' = 0
    /\ UNCHANGED <<listener, quit, elapsed, inflight>>
    /\ Quiet

\* Shutdown that returns only once no request is in flight
ShutdownTimeoutWaits ==
    /\ lifecycle = "draining"
    /\ elapsed = DrainBudget
    /\ InFlight = 0
    /\ lifecycle' = "stopped"
    /\ exitCode' = 1
    /\ UNCHANGED <<listener, quit, elapsed, inflight>>
    /\ Quiet

\* the context has expired: Shutdown returns ctx.Err() and main calls
\* log.Fatalf; the requests still in flight are abandoned with the process
ShutdownTimeout ==
    /\ lifecycle = "draining"
    /\ elapsed = DrainBudget
    /\ lifecycle' = "stopped"
    /\ exitCode' = 1
    /\ inflight' = Abandoned
    /\ UNCHANGED <<listener, quit, elapsed>>
    /\ Quiet

Next ==
    \/ healthzHandler
    \/ middlewareMetricsInc
    \/ appFileServer
    \/ assetsFileServer
    \/ adminMetricsHandler
    \/ adminResetHandler
    \/ \E fail \in BOOLEAN : adminResetDeleteUsers(fail)
    \/ \E req \in UserRequests : createUserHandler(req)
    \/ \E req \in ChirpRequests : createChirpHandler(req)
    \/ \E fail \in BOOLEAN : getChirpsHandler(fail)
    \/ \E chirpIDStr \in PathIDs : getChirpByIDHandler(chirpIDStr)
    \/ ListenBound
    \/ ListenFatal
    \/ Interrupt
    \/ Shutdown
    \/ Tick
    \/ ShutdownIdle
    \/ ShutdownTimeout

Spec == Init /\ [][Next]_vars

\* a step of the main goroutine or of the timer of its context
MainStep == Shutdown \/ Tick \/ ShutdownIdle \/ ShutdownTimeout

\* the scheduler runs main and time passes: the pending signal is taken,
\* the deadline is reached and Shutdown returns.  Handlers need not finish.
FairSpec == Spec /\ WF_vars(MainStep)

(***************************************************************************)
(* The moderator alone: cleanProfanity applied to each input.              *)
(***************************************************************************)
InitClean ==
    /\ platform = "dev"
    /\ fileserverHits = 0
    /\ users = {}
    /\ chirps = {}
    /\ lifecycle = "starting"
    /\ listener = "none"
    /\ exitCode = -1
    /\ quit = FALSE
    /\ elapsed = 0
    /\ inflight = [app |-> 0, reset |-> 0]
    /\ lastResp = NoResp
    /\ passed = 0
    /\ origin = {}
    /\ cleanPc = "call"
    /\ cleanIn \in CleanInputs
    /\ cleanOut = <<>>

cleanProfanityCall ==
    /\ cleanPc = "call"
    /\ cleanOut' = cleanProfanity(cleanIn)
    /\ cleanPc' = "ret"
    /\ UNCHANGED <<platform, fileserverHits, users, chirps, lifecycle, listener,
                   exitCode, quit, elapsed, inflight, lastResp, passed, origin,
                   cleanIn>>

NextClean == cleanProfanityCall

SpecClean == InitClean /\ [][NextClean]_vars

(***************************************************************************)
(* The server after a long run: MaxInt32 - 1 requests have passed through  *)
(* the instrumentation wrapper since the start and no reset has been made, *)
(* so fileserverHits is one below the largest int32.  passed counts the    *)
(* instrumented requests from this state on.                               *)
(***************************************************************************)
InitWrap ==
    /\ platform \in Platforms
    /\ fileserverHits = MaxInt32 - 1
    /\ users = {}
    /\ chirps = {}
    /\ lifecycle = "serving"
    /\ listener = "open"
    /\ exitCode = -1
    /\ quit = FALSE
    /\ elapsed = 0
    /\ inflight = [app |-> 0, reset |-> 0]
    /\ lastResp = NoResp
    /\ passed = 0
    /\ origin = {}
    /\ cleanPc = "idle"
    /\ cleanIn = <<>>
    /\ cleanOut = <<>>

\* the steps of a server that is past the binding of its listener
NextWrap ==
    \/ healthzHandler
    \/ middlewareMetricsInc
    \/ appFileServer
    \/ assetsFileServer
    \/ adminMetricsHandler
    \/ adminResetHandler
    \/ \E fail \in BOOLEAN : adminResetDeleteUsers(fail)
    \/ \E req \in UserRequests : createUserHandler(req)
    \/ \E req \in ChirpRequests : createChirpHandler(req)
    \/ \E fail \in BOOLEAN : getChirpsHandler(fail)
    \/ \E chirpIDStr \in PathIDs : getChirpByIDHandler(chirpIDStr)
    \/ Interrupt
    \/ Shutdown
    \/ Tick
    \/ ShutdownIdle
    \/ ShutdownTimeout

SpecWrap == InitWrap /\ [][NextWrap]_vars

(***************************************************************************)
(* Properties.                                                             *)
(***************************************************************************)
\* a chirp-creation request whose envelope decodes
WellFormed(req) == req.json = "ok" /\ Parsed[req.id].ok

C2_LimitCountsCharacters ==
    (lastResp.route = "createChirp" /\ WellFormed(lastResp.req)
        /\ Len(lastResp.req.body) <= MaxChirpLen)
    => /\ ~(lastResp.status = 400 /\ lastResp.msg = "Chirp is too long")
       /\ lastResp.calls = <<"cleanProfanity", "CreateChirp">>
       /\ (lastResp.err = "nil" => lastResp.status = 201)

\* the positions of the spaces of a text
SpacePos(s) == {i \in 1..Len(s) : s[i] = Space}

\* the number of space-delimited tokens of a text
NumTokens(s) == Cardinality(SpacePos(s)) + 1

\* the position of the k-th space of a text, 0 for k = 0 and Len(s) + 1
\* past the last space
NthSpace(s, k) ==
    IF k = 0 THEN 0
    ELSE IF k > Cardinality(SpacePos(s)) THEN Len(s) + 1
    ELSE CHOOSE p \in SpacePos(s) : Cardinality({q \in SpacePos(s) : q <= p}) = k

\* the k-th space-delimited token of a text
Token(s, k) == SubSeq(s, NthSpace(s, k - 1) + 1, NthSpace(s, k) - 1)

\* out is in with each denylisted token masked and every other token,
\* and every space, as it was
IsModerated(in, out) ==
    /\ NumTokens(out) = NumTokens(in)
    /\ \A k \in 1..NumTokens(in) :
          Token(out, k) = IF ToLower(Token(in, k)) \in profaneWords
                          THEN Mask ELSE Token(in, k)

\* C3: cleanProfanity returns its input with the same number of
\* space-delimited tokens, each token replaced by "****" exactly when its
\* lower-cased form is kerfuffle, sharbert or fornax, and unchanged otherwise.
C3_WholeTokensMasked ==
    cleanPc = "ret"
    => /\ IsModerated(cleanIn, cleanOut)
       /\ ((\A k \in 1..NumTokens(cleanIn) : ToLower(Token(cleanIn, k)) \notin profaneWords)
              => cleanOut = cleanIn)

\* "Kerfuffle kerfuffled" has become "**** kerfuffled"
C3_Witness ==
    /\ cleanPc = "ret"
    /\ cleanIn = <<75>> \o Tail(kerfuffle) \o <<Space>> \o kerfuffle \o <<100>>
    /\ cleanOut = Mask \o <<Space>> \o kerfuffle \o <<100>>

\* C4: under any interleaving the hit counter equals the number of requests
\* that passed through the instrumentation wrapper since the start or the
\* last development-mode reset, no other route changes it, and the metrics
\* report shows that number.
C4_HitsCountInstrumented ==
    /\ [](fileserverHits = passed)
    /\ [][adminMetricsHandler
             => (lastResp'.route = "metrics" /\ lastResp'.hits = passed)]_vars

\* the report shows two hits while an instrumented request is in flight
C4_Witness ==
    /\ lastResp.route = "metrics"
    /\ lastResp.hits = 2
    /\ passed = 2
    /\ inflight.app > 0

\* C5: outside development mode POST /admin/reset answers 403 and changes
\* nothing: the counter, the users and the chirps stay as they are and
\* DeleteAllUsers is never invoked.
C5_ResetForbidden ==
    [][platform # "dev"
          => /\ adminResetHandler
                => /\ lastResp'.route = "reset"
                   /\ lastResp'.status = 403
                   /\ lastResp'.calls = <<>>
                   /\ UNCHANGED <<fileserverHits, users, chirps>>
             /\ \A fail \in BOOLEAN : ~adminResetDeleteUsers(fail)]_vars

\* a reset was refused with the counter above zero and a user stored
C5_Witness ==
    /\ platform # "dev"
    /\ lastResp.route = "reset"
    /\ lastResp.status = 403
    /\ fileserverHits > 0
    /\ users # {}

\* C6: in development mode a reset zeroes the counter and goes on to delete
\* the users, and a reset that answers 200 has deleted them:
\* at the response no user that was stored is left, and with no
\* instrumented request since the counter was zeroed the counter is 0.
C6_ResetClears ==
    [][/\ (platform = "dev" /\ adminResetHandler)
          => (fileserverHits' = 0 /\ inflight'.reset = inflight.reset + 1)
       /\ \A fail \in BOOLEAN :
             (adminResetDeleteUsers(fail) /\ lastResp'.status = 200)
             => /\ platform = "dev"
                /\ lastResp'.calls = <<"DeleteAllUsers">>
                /\ lastResp'.rows = users
                /\ users' \cap users = {}
                /\ (passed = 0 => fileserverHits' = 0)]_vars

\* a reset answered 200 after deleting a stored user, the counter at 0
C6_Witness ==
    /\ platform = "dev"
    /\ lastResp.route = "reset"
    /\ lastResp.status = 200
    /\ lastResp.rows # {}
    /\ users = {}
    /\ fileserverHits = 0

\* C7: GET /api/chirps/{chirpID}: a malformed identifier is answered 400
\* without a store call; otherwise not-found is answered 404, any other
\* store failure 500, and a stored chirp 200 with that chirp.
C7_LookupStatus ==
    lastResp.route = "getChirpByID"
    => LET chirpID == Parsed[lastResp.req.id]
       IN IF ~chirpID.ok
          THEN lastResp.status = 400 /\ lastResp.calls = <<>>
          ELSE /\ lastResp.calls = <<"GetChirpByID">>
               /\ lastResp.err \in {"nil", "ErrNoRows", "other"}
               /\ (lastResp.err = "ErrNoRows" <=> lastResp.status = 404)
               /\ (lastResp.err = "other" <=> lastResp.status = 500)
               /\ (lastResp.err = "nil" <=> lastResp.status = 200)
               /\ lastResp.status = 200
                     => /\ lastResp.rows \subseteq chirps
                        /\ Cardinality(lastResp.rows) = 1
                        /\ \A c \in lastResp.rows : c.id = chirpID.id

\* a well-formed identifier of no chirp was answered 404
C7_Witness ==
    /\ lastResp.route = "getChirpByID"
    /\ Parsed[lastResp.req.id].ok
    /\ lastResp.err = "ErrNoRows"
    /\ lastResp.status = 404

\* C8: once the interrupt signal is received while serving the server
\* reaches stopped: while draining no request is accepted, and when the
\* 5-second budget has passed it stops although a request is still in flight.
C8_DrainsThenStops ==
    /\ ((lifecycle = "serving" /\ quit) \/ lifecycle = "draining")
          ~> (lifecycle = "stopped")
    /\ [](lifecycle = "draining" => (listener # "open" /\ elapsed <= DrainBudget))
    /\ [][lifecycle = "draining"
             => /\ InFlight' <= InFlight
                /\ (lifecycle' = "stopped" /\ InFlight > 0) => elapsed = DrainBudget]_vars

\* the budget has passed while the server drains with a request in flight
C8_Witness ==
    /\ lifecycle = "draining"
    /\ listener = "closed"
    /\ elapsed = DrainBudget
    /\ InFlight > 0

\* the rank of a lifecycle state
Rank(l) == CASE l = "starting" -> 0 [] l = "serving" -> 1 [] l = "draining" -> 2 [] l = "stopped" -> 3

\* C9 as stated: the lifecycle moves forward only, serving is entered once
\* the listener is bound, and draining is entered only from serving and only
\* on an interrupt signal.
C9_DrainOnlyFromServing ==
    [][lifecycle' # lifecycle
          => /\ Rank(lifecycle') > Rank(lifecycle)
             /\ lifecycle' = "serving" => (lifecycle = "starting" /\ listener' = "open")
             /\ lifecycle' = "draining" => (lifecycle = "serving" /\ quit)]_vars

\* C9: the lifecycle moves forward only, serving is entered from starting
\* once the listener is bound, and draining is entered only on an interrupt
\* signal, from serving or, when the signal comes before the listener is
\* bound, from starting; a handler step never changes the lifecycle.
C9_DrainOnlyOnInterrupt ==
    [][/\ lifecycle' # lifecycle
          => /\ Rank(lifecycle') > Rank(lifecycle)
             /\ lifecycle' = "serving" => (lifecycle = "starting" /\ listener' = "open")
             /\ lifecycle' = "draining" => (lifecycle \in {"starting", "serving"} /\ quit)
       /\ lastResp' # lastResp => lifecycle' = lifecycle]_vars

\* the server drains without ever having bound the listener
C9_Witness ==
    /\ lifecycle = "draining"
    /\ listener = "none"

\* the pairs of a request body and its moderated form, evaluated once
\* over the bodies of the requests and those a chirp can be stored with
ModeratedPairs ==
    {p \in ReqBodies \X (ReqBodies \cup {Cleaned[b] : b \in ReqBodies}) :
        IsModerated(p[1], p[2])}

\* C10: every stored chirp has a body of at most 140 characters that is the
\* moderated body of the request that created it, and the owner that
\* request named.
C10_StoredChirps ==
    \A c \in chirps :
        /\ Len(c.body) <= MaxChirpLen
        /\ \E o \in origin :
              /\ o.id = c.id
              /\ <<o.req.body, c.body>> \in ModeratedPairs
              /\ WellFormed(o.req)
              /\ c.userID = Parsed[o.req.id].id

\* a chirp is stored with a masked word in its body
C10_Witness ==
    \E c \in chirps : \E o \in origin :
        /\ o.id = c.id
        /\ c.body # o.req.body
        /\ c.body = Mask \o <<Space, 104, 105>>

\* C11: no step modifies or deletes a stored chirp: every chirp stored before
\* a step is stored after it with the same identifier, body and owner, also
\* when the step is the reset that deletes the chirp's owner.
C11_ChirpsKept ==
    [][\A c \in chirps :
          /\ c \in chirps'
          /\ \A d \in chirps' : d.id = c.id => d = c]_vars

\* a development-mode reset has deleted the owner of a chirp that is stored
C11_Witness ==
    /\ lastResp.route = "reset"
    /\ lastResp.status = 200
    /\ users = {}
    /\ \E u \in lastResp.rows : \E c \in chirps : c.userID = u.id

\* C12: the hit counter is never negative, each instrumented request raises
\* it by one, and it goes down only by the reset, which sets it to zero.
C12_CounterMonotone ==
    /\ [](fileserverHits >= 0)
    /\ [][/\ middlewareMetricsInc
             => /\ fileserverHits' > fileserverHits
                /\ fileserverHits' - fileserverHits = 1
          /\ fileserverHits' < fileserverHits
             => (adminResetHandler /\ fileserverHits' = 0)]_vars

\* C13: a development-mode reset is not all-or-nothing: the counter is
\* zeroed in a step that deletes no user and writes no response, before
\* DeleteAllUsers is called; when DeleteAllUsers fails the reset answers 500,
\* the users are still stored, and the counter keeps the hits of the
\* instrumented requests that came since the zeroing.
C13_ResetNotAtomic ==
    [][/\ (platform = "dev" /\ adminResetHandler)
          => /\ fileserverHits' = 0
             /\ users' = users
             /\ lastResp' = lastResp
       /\ adminResetDeleteUsers(TRUE)
          => /\ lastResp'.route = "reset"
             /\ lastResp'.status = 500
             /\ lastResp'.calls = <<"DeleteAllUsers">>
             /\ users' = users
             /\ fileserverHits' = fileserverHits
             /\ fileserverHits' = passed]_vars

\* a reset has answered 500 with a user still stored and with the hit of
\* an instrumented request that is still in flight on the counter
C13_Witness ==
    /\ lastResp.route = "reset"
    /\ lastResp.status = 500
    /\ users # {}
    /\ fileserverHits = 1
    /\ passed = 1
    /\ inflight = [app |-> 1, reset |-> 0]

====
